---- MODULE Spec2Model ----
(***************************************************************************)
(* yaml2ical: recurring meeting schedules, their expansion into dated      *)
(* instances and the per-channel conflict check (yaml2ical/meeting.py).    *)
(*                                                                         *)
(* Time is counted in minutes since 1900-01-01 00:00 UTC, a Monday, the    *)
(* date DATES gives to 'Monday'; a day number is a count of days since     *)
(* that date, so that weekday(d) = d % 7 with Monday = 0, as Python's      *)
(* datetime.weekday().  The scalars of a YAML record are modelled by their *)
(* text, a sequence of one-character strings.                              *)
(***************************************************************************)
EXTENDS Integers, Sequences, FiniteSets, TLC

VARIABLES meetings, now, outcome

vars == <<meetings, now, outcome>>

---------------------------------------------------------------------------
(* Text: str.lower, str.capitalize, int(), strptime                        *)

LowerChars == <<"a","b","c","d","e","f","g","h","i","j","k","l","m",
                "n","o","p","q","r","s","t","u","v","w","x","y","z">>
UpperChars == <<"A","B","C","D","E","F","G","H","I","J","K","L","M",
                "N","O","P","Q","R","S","T","U","V","W","X","Y","Z">>
DigitChars == <<"0","1","2","3","4","5","6","7","8","9">>

IndexOf(seq, c) ==
    IF \E i \in DOMAIN seq : seq[i] = c
    THEN CHOOSE i \in DOMAIN seq : seq[i] = c
    ELSE 0

LowerChar(c) == IF IndexOf(UpperChars, c) = 0 THEN c
                ELSE LowerChars[IndexOf(UpperChars, c)]

UpperChar(c) == IF IndexOf(LowerChars, c) = 0 THEN c
                ELSE UpperChars[IndexOf(LowerChars, c)]

\* str.lower()
Lower(s) == [i \in DOMAIN s |-> LowerChar(s[i])]

\* str.capitalize(): first character upper-cased, the rest lower-cased
Capitalize(s) == [i \in DOMAIN s |-> IF i = 1 THEN UpperChar(s[i]) ELSE LowerChar(s[i])]

IsDigit(c) == IndexOf(DigitChars, c) # 0
DigitVal(c) == IndexOf(DigitChars, c) - 1

RECURSIVE DigitsVal(_)
DigitsVal(s) == IF s = <<>> THEN 0
                ELSE 10 * DigitsVal(SubSeq(s, 1, Len(s) - 1)) + DigitVal(s[Len(s)])

AllDigits(s) == s # <<>> /\ \A i \in DOMAIN s : IsDigit(s[i])

\* int(text): an optional sign and decimal digits, else ValueError
ParseInt(s) ==
    IF s # <<>> /\ s[1] \in {"-", "+"}
    THEN IF AllDigits(Tail(s))
         THEN [ok |-> TRUE, v |-> IF s[1] = "-" THEN 0 - DigitsVal(Tail(s))
                                                ELSE DigitsVal(Tail(s))]
         ELSE [ok |-> FALSE, v |-> 0]
    ELSE IF AllDigits(s) THEN [ok |-> TRUE, v |-> DigitsVal(s)]
         ELSE [ok |-> FALSE, v |-> 0]

\* The prefixes of s, longest alternative first, that strptime's pattern of a
\* directive matches: each is the number of characters taken.
TakeH(s) ==
    (IF Len(s) >= 2 /\ s[1] = "2" /\ s[2] \in {"0","1","2","3"} THEN <<2>> ELSE <<>>)
    \o (IF Len(s) >= 2 /\ s[1] \in {"0","1"} /\ IsDigit(s[2]) THEN <<2>> ELSE <<>>)
    \o (IF Len(s) >= 1 /\ IsDigit(s[1]) THEN <<1>> ELSE <<>>)

TakeM(s) ==
    (IF Len(s) >= 2 /\ s[1] \in {"0","1","2","3","4","5"} /\ IsDigit(s[2])
     THEN <<2>> ELSE <<>>)
    \o (IF Len(s) >= 1 /\ IsDigit(s[1]) THEN <<1>> ELSE <<>>)

Drop(s, n) == SubSeq(s, n + 1, Len(s))

\* datetime.strptime(text, '%H%M'): the first match of the pattern, which
\* must take the whole text; the result is the minute of the day.
ParseTime(s) ==
    LET hs == TakeH(s)
        hit == {i \in DOMAIN hs : TakeM(Drop(s, hs[i])) # <<>>}
    IN  IF hit = {} THEN [ok |-> FALSE, v |-> 0]
        ELSE LET i == CHOOSE k \in hit : \A l \in hit : k <= l
                 h == hs[i]
                 m == TakeM(Drop(s, h))[1]
             IN  IF h + m # Len(s) THEN [ok |-> FALSE, v |-> 0]
                 ELSE [ok |-> TRUE,
                       v |-> 60 * DigitsVal(SubSeq(s, 1, h))
                             + DigitsVal(SubSeq(s, h + 1, h + m))]

IsLeap(y) == (y % 4 = 0 /\ y % 100 # 0) \/ y % 400 = 0

DaysInMonth(y, m) ==
    IF m = 2 THEN (IF IsLeap(y) THEN 29 ELSE 28)
    ELSE IF m \in {4, 6, 9, 11} THEN 30 ELSE 31

\* The day number of a calendar date: days since 1900-01-01.
DayNumber(y, m, d) ==
    LET yy  == IF m <= 2 THEN y - 1 ELSE y
        era == yy \div 400
        yoe == yy - era * 400
        mp  == (m + 9) % 12
        doy == (153 * mp + 2) \div 5 + d - 1
        doe == yoe * 365 + yoe \div 4 - yoe \div 100 + doy
    IN  era * 146097 + doe - 693901

\* datetime.strptime(text, '%Y%m%d') for an eight-digit text YYYYMMDD: the
\* day number of the date, ValueError if the text is no date.
ParseDate(s) ==
    IF Len(s) = 8 /\ AllDigits(s)
    THEN LET y == DigitsVal(SubSeq(s, 1, 4))
             m == DigitsVal(SubSeq(s, 5, 6))
             d == DigitsVal(SubSeq(s, 7, 8))
         IN  IF y >= 1 /\ m \in 1..12 /\ d >= 1 /\ d <= DaysInMonth(y, m)
             THEN [ok |-> TRUE, v |-> DayNumber(y, m, d)]
             ELSE [ok |-> FALSE, v |-> 0]
    ELSE [ok |-> FALSE, v |-> 0]

---------------------------------------------------------------------------
(* Module constants of meeting.py                                          *)

Day == 24 * 60

Monday    == <<"M","o","n","d","a","y">>
Tuesday   == <<"T","u","e","s","d","a","y">>
Wednesday == <<"W","e","d","n","e","s","d","a","y">>
Thursday  == <<"T","h","u","r","s","d","a","y">>
Friday    == <<"F","r","i","d","a","y">>
Saturday  == <<"S","a","t","u","r","d","a","y">>
Sunday    == <<"S","u","n","d","a","y">>

DayNames == <<Monday, Tuesday, Wednesday, Thursday, Friday, Saturday, Sunday>>
DayKeys == {DayNames[i] : i \in DOMAIN DayNames}

\* DATES[name]: the date of that weekday in the week of 1900-01-01, as a day number
DATES(name) == DayNumber(1900, 1, IndexOf(DayNames, name))

\* WEEKDAYS[name]: 0 for Monday .. 6 for Sunday
WEEKDAYS(name) == IndexOf(DayNames, name) - 1

ONE_WEEK == 7 * Day

supported_frequencies == [weekly |-> 1, biweekly |-> 2]

DefaultDuration == 60

WindowDays == 365

\* datetime.weekday() of an instant, and strftime("%a") == 'Mon'
Weekday(t) == (t \div Day) % 7
IsMon(t) == Weekday(t) = 0

---------------------------------------------------------------------------
(* Schedule                                                                *)

KeyError(key) == [ok |-> FALSE, exc |-> "KeyError", names |-> key]
ValueError(what) == [ok |-> FALSE, exc |-> "ValueError", names |-> what]

\* Lines 92-94: the slot moved back one week when it starts on Sunday and its
\* end falls on a Monday.
ShiftSunday(day, meeting_start, meeting_end) ==
    IF day = Sunday /\ IsMon(meeting_end)
    THEN [meeting_start |-> meeting_start - ONE_WEEK,
          meeting_end |-> meeting_end - ONE_WEEK]
    ELSE [meeting_start |-> meeting_start, meeting_end |-> meeting_end]

\* Lines 88-91: datetime.combine(DATES[day], time) and the end after `duration`
SlotFrom(day, meeting_start, duration) ==
    ShiftSunday(day, meeting_start, meeting_start + duration)

\* Lines 86-94: the slot within the canonical week of 1900-01-01
WeekSlot(day, time, duration) == SlotFrom(day, DATES(day) * Day + time, duration)

NotGiven == [ok |-> FALSE, v |-> 0]

\* The conversions Schedule.__init__ applies to the fields that are present
Converted(sched_yaml) ==
    [time |-> IF "time" \in DOMAIN sched_yaml
              THEN ParseTime(sched_yaml["time"]) ELSE NotGiven,
     day |-> IF "day" \in DOMAIN sched_yaml
             THEN Capitalize(Lower(sched_yaml["day"])) ELSE <<>>,
     start_date |-> IF "start_date" \in DOMAIN sched_yaml
                    THEN ParseDate(sched_yaml["start_date"]) ELSE NotGiven,
     duration |-> IF "duration" \in DOMAIN sched_yaml
                  THEN ParseInt(sched_yaml["duration"]) ELSE NotGiven]

\* Lines 46-94 in the order the code runs them, `c` being the converted fields:
\* the Schedule built, or the first exception raised.
ScheduleFrom(project, sched_yaml, utcnow, c) ==
    IF "time" \notin DOMAIN sched_yaml THEN KeyError("time")
    ELSE IF ~c.time.ok THEN ValueError("time data")
    ELSE IF "day" \notin DOMAIN sched_yaml THEN KeyError("day")
    ELSE IF "irc" \notin DOMAIN sched_yaml THEN KeyError("irc")
    ELSE IF "frequency" \notin DOMAIN sched_yaml THEN KeyError("frequency")
    ELSE IF sched_yaml["frequency"] \notin DOMAIN supported_frequencies
         THEN KeyError(sched_yaml["frequency"])
    ELSE IF "start_date" \in DOMAIN sched_yaml /\ ~c.start_date.ok
         THEN ValueError("start_date")
    ELSE IF "duration" \in DOMAIN sched_yaml /\ ~c.duration.ok
         THEN ValueError("duration")
    ELSE IF c.day \notin DayKeys THEN ValueError("day")
    ELSE [ok |-> TRUE,
          sched |->
            [project |-> project,
             utc |-> sched_yaml["time"],
             time |-> c.time.v,
             day |-> c.day,
             irc |-> sched_yaml["irc"],
             freq |-> sched_yaml["frequency"],
             freq_interval |-> supported_frequencies[sched_yaml["frequency"]],
             start_date |-> IF "start_date" \in DOMAIN sched_yaml
                            THEN c.start_date.v * Day ELSE utcnow,
             duration |-> IF "duration" \in DOMAIN sched_yaml
                          THEN c.duration.v ELSE DefaultDuration]
            @@ WeekSlot(c.day, c.time.v,
                        IF "duration" \in DOMAIN sched_yaml
                        THEN c.duration.v ELSE DefaultDuration)]

\* Schedule.__init__(meeting, sched_yaml), utcnow being the clock's reading
Schedule(project, sched_yaml, utcnow) ==
    ScheduleFrom(project, sched_yaml, utcnow, Converted(sched_yaml))

\* A same-week test that counts touching slots as a conflict
conflictsClosed(self, other) ==
    /\ self.irc = other.irc
    /\ self.meeting_start <= other.meeting_end
    /\ other.meeting_start <= self.meeting_end
    /\ {self.freq, other.freq} # {"biweekly-odd", "biweekly-even"}

\* Schedule.conflicts(other)
conflicts(self, other) ==
    LET alternating == {"biweekly-odd", "biweekly-even"}
    IN  /\ self.irc = other.irc
        /\ self.meeting_start < other.meeting_end
        /\ other.meeting_start < self.meeting_end
        /\ {self.freq, other.freq} # alternating

\* next_occurrence() without the step into the following week
next_occurrenceThisWeek(self) ==
    (self.start_date \div Day + WEEKDAYS(self.day) - Weekday(self.start_date)) * Day
    + self.time

\* Schedule.next_occurrence()
next_occurrence(self) ==
    LET weekday == WEEKDAYS(self.day)
        days == weekday - Weekday(self.start_date)
        days_ahead == IF days < 0 THEN days + 7 ELSE days
        next_meeting == self.start_date \div Day + days_ahead
    IN  next_meeting * Day + self.time

\* Schedule.recurrence_rule()
recurrence_rule(self) == [freq |-> "weekly", interval |-> self.freq_interval]

---------------------------------------------------------------------------
(* Meeting                                                                 *)

\* The loop of Meeting.__init__ over yaml_obj['schedule'] from record k on:
\* the schedules built so far, or the first exception raised.
RECURSIVE BuildSchedules(_, _, _, _, _)

\* Lines 161-162: s = Schedule(self, sch) is appended and the loop goes on,
\* unless the constructor raised.
AppendSchedule(project, recs, k, built, utcnow, s) ==
    IF s.ok THEN BuildSchedules(project, recs, k + 1, Append(built, s.sched), utcnow)
    ELSE s

BuildSchedules(project, recs, k, built, utcnow) ==
    IF k > Len(recs) THEN [ok |-> TRUE, schedules |-> built]
    ELSE AppendSchedule(project, recs, k, built, utcnow,
                        Schedule(project, recs[k], utcnow))

\* The Meeting that holds the schedules built, or the exception
MeetingOf(data, r) ==
    IF r.ok THEN [ok |-> TRUE,
                  meeting |-> [project |-> data.project, schedules |-> r.schedules]]
    ELSE r

\* Meeting.__init__(data)
Meeting(data, utcnow) ==
    MeetingOf(data, BuildSchedules(data.project, data.schedule, 1, <<>>, utcnow))

---------------------------------------------------------------------------
(* check_for_meeting_conflicts                                             *)

\* MeetingInstance.__init__(project, start, duration)
MeetingInstance(project, start, duration) ==
    [project |-> project, start |-> start, end |-> start + duration]

\* between(after, before) with inc=False: the bounds themselves left out
RECURSIVE BetweenExclusive(_, _, _, _)
BetweenExclusive(dt, interval, after, before) ==
    IF dt >= before THEN <<>>
    ELSE (IF dt > after THEN <<dt>> ELSE <<>>)
         \o BetweenExclusive(dt + interval * ONE_WEEK, interval, after, before)

\* rrule.rrule(rrule.WEEKLY, dtstart, interval).between(after, before, inc=True):
\* the rule's instants dtstart, dtstart + interval weeks, ... in order, those
\* before `after` skipped, until one passes `before`.
RECURSIVE Between(_, _, _, _)
Between(dt, interval, after, before) ==
    IF dt > before THEN <<>>
    ELSE (IF dt >= after THEN <<dt>> ELSE <<>>)
         \o Between(dt + interval * ONE_WEEK, interval, after, before)

\* An expansion that steps by one week whatever the schedule's interval
OccurrencesEveryWeek(schedule, start, end) ==
    Between(next_occurrence(schedule), 1, start, end)

\* Lines 232-235: the occurrences of one schedule in the window
Occurrences(schedule, start, end) ==
    Between(next_occurrence(schedule), schedule.freq_interval, start, end)

\* Lines 236-239: allinstances[schedule.irc] gets one MeetingInstance appended
\* per occurrence; the key appears with the first append. `all` is the
\* defaultdict: its keys in insertion order and the list of each.
AppendInstances(all, project, schedule, occurrences) ==
    IF occurrences = <<>> THEN all
    ELSE [keys |-> IF \E c \in DOMAIN all.keys : all.keys[c] = schedule.irc
                   THEN all.keys ELSE Append(all.keys, schedule.irc),
          list |-> [c \in DOMAIN all.list \cup {schedule.irc} |->
                      IF c = schedule.irc
                      THEN (IF c \in DOMAIN all.list THEN all.list[c] ELSE <<>>)
                           \o [k \in 1..Len(occurrences) |->
                                  MeetingInstance(project, occurrences[k],
                                                  schedule.duration)]
                      ELSE all.list[c]]]

\* Lines 230-239: the two outer loops, from schedule k of meeting i on
RECURSIVE AllInstances(_, _, _, _, _, _)
AllInstances(ms, i, k, all, start, end) ==
    IF i > Len(ms) THEN all
    ELSE IF k > Len(ms[i].schedules) THEN AllInstances(ms, i + 1, 1, all, start, end)
    ELSE AllInstances(ms, i, k + 1,
                      AppendInstances(all, ms[i].project, ms[i].schedules[k],
                                      Occurrences(ms[i].schedules[k], start, end)),
                      start, end)

\* The pair test with its second half comparing the two starts
OverlapOneSided(a, b) == a.start < b.end /\ b.start > a.start

\* A pair test that counts touching intervals as a conflict
OverlapClosed(a, b) == a.start <= b.end /\ a.end >= b.start

\* Lines 246-247: the test of one pair
Overlap(a, b) == a.start < b.end /\ a.end > b.start

\* Lines 243-250: the inner loop from j on; the first j that conflicts with
\* i, where the raise leaves the loop, or 0
ScanJ(list, i, j) ==
    IF \E x \in j..Len(list) : Overlap(list[i], list[x])
    THEN CHOOSE x \in j..Len(list) :
            /\ Overlap(list[i], list[x])
            /\ \A y \in j..(x - 1) : ~Overlap(list[i], list[y])
    ELSE 0

\* The rows from i on in which the inner loop finds a conflict
RowsWithHit(list, i) == {x \in i..Len(list) : ScanJ(list, x, x + 1) # 0}

\* A loop over i that goes on after a hit and reports the last one
LastHit(list, rows) ==
    IF rows = {} THEN <<0, 0>>
    ELSE <<CHOOSE x \in rows : \A y \in rows : y <= x,
           ScanJ(list, CHOOSE x \in rows : \A y \in rows : y <= x,
                 (CHOOSE x \in rows : \A y \in rows : y <= x) + 1)>>

ScanIKeepGoing(list, i) == LastHit(list, RowsWithHit(list, i))

\* The first row of `rows` and the pair the inner loop finds in it
FirstHit(list, rows) ==
    IF rows = {} THEN <<0, 0>>
    ELSE <<CHOOSE x \in rows : \A y \in rows : x <= y,
           ScanJ(list, CHOOSE x \in rows : \A y \in rows : x <= y,
                 (CHOOSE x \in rows : \A y \in rows : x <= y) + 1)>>

\* Lines 242-250: the loop over i; the first conflicting pair, where the raise
\* leaves both loops, or <<0, 0>>
ScanI(list, i) == FirstHit(list, RowsWithHit(list, i))

\* Lines 241-250: the loop over the channels in the dict's order; the raise
\* ends the scan.
RECURSIVE ScanChannels(_, _)
ScanChannels(all, c) ==
    IF c > Len(all.keys) THEN [raised |-> FALSE, channel |-> 0, i |-> 0, j |-> 0]
    ELSE LET hit == ScanI(all.list[all.keys[c]], 1)
         IN  IF hit # <<0, 0>>
             THEN [raised |-> TRUE, channel |-> c, i |-> hit[1], j |-> hit[2]]
             ELSE ScanChannels(all, c + 1)

NoInstances == [keys |-> <<>>, list |-> [c \in {} |-> <<>>]]

\* Lines 248-250: what the scan ends with: MeetingConflictError naming the
\* projects of the pair, or nothing.
Report(start, end, allinstances, scan) ==
    [op |-> "check", start |-> start, end |-> end,
     allinstances |-> allinstances,
     raised |-> scan.raised, channel |-> scan.channel, i |-> scan.i, j |-> scan.j,
     error |-> IF scan.raised
               THEN <<allinstances.list[allinstances.keys[scan.channel]][scan.i].project,
                      allinstances.list[allinstances.keys[scan.channel]][scan.j].project>>
               ELSE <<>>]

\* Lines 241-250 on the instances expanded
ScanAll(start, end, allinstances) ==
    Report(start, end, allinstances, ScanChannels(allinstances, 1))

\* Lines 226-239: the window from `start` and the expansion over it
ExpandAndScan(ms, start, end) ==
    ScanAll(start, end, AllInstances(ms, 1, 1, NoInstances, start, end))

\* check_for_meeting_conflicts(meetings) called at instant `clock`: the window,
\* allinstances, and whether and where MeetingConflictError is raised.
check_for_meeting_conflicts(ms, clock) ==
    ExpandAndScan(ms, clock, clock + WindowDays * Day)

---------------------------------------------------------------------------
(* Inputs: the YAML records and clock readings the operations are given    *)

\* A schedule record of a YAML file: the keys that are present, each with its
\* value; `fields` gives each key the empty set (absent) or {value}.
MkRecord(fields) ==
    [k \in {f \in DOMAIN fields : fields[f] # {}} |-> CHOOSE v \in fields[k] : TRUE]

RecordsOf(T, D, I, F, S, U) ==
    {MkRecord([time |-> t, day |-> d, irc |-> i, frequency |-> f,
               start_date |-> s, duration |-> u]) :
        t \in T, d \in D, i \in I, f \in F, s \in S, u \in U}

Given(values) == {{v} : v \in values}
Absent == {{}}

\* The instant of a calendar date and time of day
At(y, m, d, hh, mm) == DayNumber(y, m, d) * Day + hh * 60 + mm

t0000 == <<"0","0","0","0">>
t1000 == <<"1","0","0","0">>
t1015 == <<"1","0","1","5">>
t1030 == <<"1","0","3","0">>
t2300 == <<"2","3","0","0">>
t2330 == <<"2","3","3","0">>

d20261019 == <<"2","0","2","6","1","0","1","9">>
d20261026 == <<"2","0","2","6","1","0","2","6">>
d20261102 == <<"2","0","2","6","1","1","0","2">>
d20261109 == <<"2","0","2","6","1","1","0","9">>
d20270301 == <<"2","0","2","7","0","3","0","1">>
d20280103 == <<"2","0","2","8","0","1","0","3">>

\* The week of Monday 2026-11-02 .. Sunday 2026-11-08
WeekDates == {<<"2","0","2","6","1","1","0", DigitChars[n + 1]>> : n \in 2..8}

\* Monday-morning slots on two channels, weekly from 2026-11-02: 1000-1030
\* and 1015-1045 overlap, 1000-1030 and 1030-1100 touch.
MondayRecords ==
    RecordsOf(Given({t1000, t1015, t1030}), Given({Monday}), Given({"a", "b"}),
              Given({"weekly"}), Given({d20261102}), Given({<<"3","0">>}))

OneSchedule == {<<r>> : r \in MondayRecords}

\* Two meetings that each hold a slot on both channels, in opposite orders
TwoSchedules ==
    {<<MkRecord([time |-> {t1000}, day |-> {Monday}, irc |-> {"a"},
                 frequency |-> {"weekly"}, start_date |-> {d20261102},
                 duration |-> {<<"3","0">>}]),
       MkRecord([time |-> {t1000}, day |-> {Monday}, irc |-> {"b"},
                 frequency |-> {"biweekly"}, start_date |-> {d20261102},
                 duration |-> {<<"3","0">>}])>>,
     <<MkRecord([time |-> {t1015}, day |-> {Monday}, irc |-> {"b"},
                 frequency |-> {"weekly"}, start_date |-> {d20261109},
                 duration |-> {<<"3","0">>}]),
       MkRecord([time |-> {t1015}, day |-> {Monday}, irc |-> {"a"},
                 frequency |-> {"weekly"}, start_date |-> {d20261102},
                 duration |-> {<<"3","0">>}])>>}

ProjectNames == <<"P1", "P2", "P3", "P4">>

MaxMeetings == 2

Clock == {At(2026, 11, 2, 9, 0), At(2026, 11, 4, 10, 15)}

---------------------------------------------------------------------------
(* Operations                                                              *)

Init ==
    /\ meetings = <<>>
    /\ now \in Clock
    /\ outcome = [op |-> "none"]

\* load_meetings: one more meeting definition is read; a record that fails
\* to construct raises out of Meeting.__init__ and no meeting is added.
LoadMeeting(data) ==
    /\ \E m \in {Meeting(data, now)} :
          /\ meetings' = IF m.ok THEN Append(meetings, m.meeting) ELSE meetings
          /\ outcome' = IF m.ok
                        THEN [op |-> "load", ok |-> TRUE, data |-> data]
                        ELSE [op |-> "load", ok |-> FALSE, data |-> data,
                              exc |-> m.exc, names |-> m.names]
    /\ UNCHANGED now

\* check_for_meeting_conflicts(meetings)
Check ==
    /\ outcome' = check_for_meeting_conflicts(meetings, now)
    /\ UNCHANGED <<meetings, now>>

\* meetings[m].schedules[k].conflicts(meetings[n].schedules[l])
CallConflicts(m, k, n, l) ==
    /\ outcome' = [op |-> "conflicts", self |-> <<m, k>>, other |-> <<n, l>>,
                   result |-> conflicts(meetings[m].schedules[k],
                                        meetings[n].schedules[l])]
    /\ UNCHANGED <<meetings, now>>

\* meetings[m].schedules[k].next_occurrence()
CallNextOccurrence(m, k) ==
    /\ outcome' = [op |-> "next_occurrence", self |-> <<m, k>>,
                   result |-> next_occurrence(meetings[m].schedules[k])]
    /\ UNCHANGED <<meetings, now>>

\* The clock moves on.
Tick(t) ==
    /\ t > now
    /\ now' = t
    /\ UNCHANGED <<meetings, outcome>>

\* The schedules held: <<meeting, index>>
Held == {<<m, k>> : m \in DOMAIN meetings, k \in 1..2} \cap
        {p \in (DOMAIN meetings) \X (1..2) : p[2] <= Len(meetings[p[1]].schedules)}

\* load_meetings catches nothing: an exception raised by Meeting.__init__ ends
\* the loading, no further definition is read.
Raised == outcome.op = "load" /\ ~outcome.ok

Load(schedules) ==
    /\ ~Raised
    /\ LoadMeeting([project |-> ProjectNames[Len(meetings) + 1], schedule |-> schedules])

\* The program: meetings are loaded, then checked, as time passes.
Next ==
    \/ \E schedules \in OneSchedule \cup TwoSchedules :
          Len(meetings) < MaxMeetings /\ Load(schedules)
    \/ Check
    \/ \E t \in Clock : Tick(t)

Spec == Init /\ [][Next]_vars

---------------------------------------------------------------------------
(* What the claims speak of                                                *)

\* The schedules held, in the order they were supplied: meeting by meeting,
\* each meeting's schedules in its own order.
RECURSIVE Supplied(_)
Supplied(ms) ==
    IF ms = <<>> THEN <<>>
    ELSE [k \in 1..Len(Head(ms).schedules) |->
             [project |-> Head(ms).project, schedule |-> Head(ms).schedules[k]]]
         \o Supplied(Tail(ms))

\* Two intervals share more than an endpoint.
Intersect(a, b) == a.start < b.end /\ b.start < a.end

\* The instances of the x-th supplied schedule in the window of the check made
WindowInstances(x) ==
    LET e == Supplied(meetings)[x]
        occ == Occurrences(e.schedule, outcome.start, outcome.end)
    IN  [n \in DOMAIN occ |->
            [project |-> e.project, irc |-> e.schedule.irc,
             start |-> occ[n], end |-> occ[n] + e.schedule.duration]]

\* Some two distinct expanded instances are on one channel and intersect.
SomeTwoIntersect ==
    LET inst == [x \in DOMAIN Supplied(meetings) |-> WindowInstances(x)]
    IN  \E x, y \in DOMAIN inst : \E n \in DOMAIN inst[x], o \in DOMAIN inst[y] :
            /\ <<x, n>> # <<y, o>>
            /\ inst[x][n].irc = inst[y][o].irc
            /\ Intersect(inst[x][n], inst[y][o])

\* C1: the check raises MeetingConflictError exactly when two distinct
\* expanded instances of the window are on the same channel and a.start <
\* b.end and b.start < a.end; so instances on different channels, and
\* same-channel instances that only touch, never raise.
C1_RaisesIffTwoIntersect ==
    outcome.op = "check" => (outcome.raised <=> SomeTwoIntersect)

\* C1 witness: a check that raised nothing although one channel holds two
\* instances that touch and two channels hold instances that intersect.
C1_TouchingAndOtherChannel ==
    /\ outcome.op = "check"
    /\ ~outcome.raised
    /\ LET inst == [x \in DOMAIN Supplied(meetings) |-> WindowInstances(x)]
       IN  /\ \E x, y \in DOMAIN inst : \E n \in DOMAIN inst[x], o \in DOMAIN inst[y] :
                 /\ inst[x][n].irc = inst[y][o].irc
                 /\ inst[x][n].end = inst[y][o].start
           /\ \E x, y \in DOMAIN inst : \E n \in DOMAIN inst[x], o \in DOMAIN inst[y] :
                 /\ inst[x][n].irc # inst[y][o].irc
                 /\ Intersect(inst[x][n], inst[y][o])

\* The list a channel's instances form when taken schedule by schedule in the
\* order supplied, from the x-th on, each schedule's in order of time.
RECURSIVE ChannelList(_, _)
ChannelList(c, x) ==
    IF x > Len(Supplied(meetings)) THEN <<>>
    ELSE LET w == WindowInstances(x)
         IN  (IF Supplied(meetings)[x].schedule.irc = c
              THEN [n \in DOMAIN w |-> [project |-> w[n].project,
                                        start |-> w[n].start, end |-> w[n].end]]
              ELSE <<>>)
             \o ChannelList(c, x + 1)

\* The first supplied schedule that gives channel c an instance
FirstOn(c) ==
    LET on == {x \in DOMAIN Supplied(meetings) :
                  Supplied(meetings)[x].schedule.irc = c /\ WindowInstances(x) # <<>>}
    IN  CHOOSE x \in on : \A y \in on : x <= y

\* No pair of the list intersects.
NoneIntersect(list) ==
    \A i, j \in DOMAIN list : i < j => ~Intersect(list[i], list[j])

\* C7: channels are scanned in the order they first received an instance,
\* each channel's list holds its instances in the order the meetings and
\* schedules were supplied and then by time, pairs i < j are scanned with i
\* ascending and then j ascending, and the pair reported is the first that
\* intersects in that order; with no such pair anywhere nothing is raised.
C7_FirstPairInScanOrder ==
    outcome.op = "check" =>
      LET all == outcome.allinstances
          keys == all.keys
      IN  /\ {keys[a] : a \in DOMAIN keys} =
                {Supplied(meetings)[x].schedule.irc :
                    x \in {y \in DOMAIN Supplied(meetings) : WindowInstances(y) # <<>>}}
          /\ \A a, b \in DOMAIN keys : a < b => FirstOn(keys[a]) < FirstOn(keys[b])
          /\ \A a \in DOMAIN keys : all.list[keys[a]] = ChannelList(keys[a], 1)
          /\ outcome.raised =>
               LET l == all.list[keys[outcome.channel]]
                   i == outcome.i
                   j == outcome.j
               IN  /\ outcome.channel \in DOMAIN keys
                   /\ i \in DOMAIN l /\ j \in DOMAIN l /\ i < j
                   /\ Intersect(l[i], l[j])
                   /\ outcome.error = <<l[i].project, l[j].project>>
                   /\ \A a \in 1..(outcome.channel - 1) : NoneIntersect(all.list[keys[a]])
                   /\ \A ii, jj \in DOMAIN l :
                         (ii < jj /\ (ii < i \/ (ii = i /\ jj < j)))
                             => ~Intersect(l[ii], l[jj])
          /\ ~outcome.raised => \A a \in DOMAIN keys : NoneIntersect(all.list[keys[a]])

\* C7 witness: a conflict is reported while a later pair of the same channel
\* and a pair of a later channel intersect too.
C7_LaterPairsAlsoIntersect ==
    /\ outcome.op = "check"
    /\ outcome.raised
    /\ LET all == outcome.allinstances
           l == all.list[all.keys[outcome.channel]]
       IN  /\ \E ii, jj \in DOMAIN l :
                 /\ ii < jj
                 /\ (ii > outcome.i \/ (ii = outcome.i /\ jj > outcome.j))
                 /\ Intersect(l[ii], l[jj])
           /\ \E a \in DOMAIN all.keys :
                 a > outcome.channel /\ ~NoneIntersect(all.list[all.keys[a]])

---------------------------------------------------------------------------
(* Expansion of one schedule: its anchor, its interval and the clock vary  *)

ExpandRecords ==
    RecordsOf(Given({t1000}), Given({Monday, Thursday}), Given({"a"}),
              Given({"weekly", "biweekly"}),
              Absent \cup Given({d20261019, d20261026, d20261102, d20261109, d20270301,
                                 d20280103}),
              Given({<<"4","5">>}))

\* Sunday 2026-11-01 10:00 (a year before Monday 2027-11-01 10:00), Monday
\* 2026-11-02 at 10:00 and 10:01, Thursday 2026-11-05 12:00
ExpandClock == {At(2026, 11, 1, 10, 0), At(2026, 11, 2, 10, 0),
                At(2026, 11, 2, 10, 1), At(2026, 11, 5, 12, 0)}

InitExpand ==
    /\ meetings = <<>>
    /\ now \in ExpandClock
    /\ outcome = [op |-> "none"]

NextExpand ==
    \/ \E r \in ExpandRecords : meetings = <<>> /\ Load(<<r>>)
    \/ Check
    \/ \E t \in ExpandClock : Tick(t)

SpecExpand == InitExpand /\ [][NextExpand]_vars

\* The instances the check made of the only schedule held
OnlyList ==
    IF outcome.allinstances.keys = <<>> THEN <<>>
    ELSE outcome.allinstances.list[outcome.allinstances.keys[1]]

OnlySchedule == meetings[1].schedules[1]

CheckedOne == outcome.op = "check" /\ Len(Supplied(meetings)) = 1

\* C3: the occurrence starts expanded for a schedule are exactly the instants
\* next_occurrence() + k * 7 * interval days, k >= 0, that lie in
\* [window_start, window_end], both bounds included; each instance ends at
\* its start plus the schedule's duration.
C3_ExpansionIsGridInWindow ==
    CheckedOne =>
      LET s == OnlySchedule
          first == next_occurrence(s)
          step == 7 * s.freq_interval * Day
          last == IF outcome.end < first THEN 0 - 1 ELSE (outcome.end - first) \div step
          grid == {first + k * step : k \in 0..last}
      IN  /\ {OnlyList[n].start : n \in DOMAIN OnlyList} =
                {t \in grid : outcome.start <= t /\ t <= outcome.end}
          /\ \A n \in DOMAIN OnlyList : OnlyList[n].end = OnlyList[n].start + s.duration

\* C3 witness: a schedule that started before the window has an instance
\* that starts exactly at the window's end.
C3_InstanceAtWindowEnd ==
    /\ CheckedOne
    /\ next_occurrence(OnlySchedule) < outcome.start
    /\ \E n \in DOMAIN OnlyList : OnlyList[n].start = outcome.end

WindowWeeks == WindowDays \div 7

\* C8, as claimed: every biweekly schedule has ceil(N/2) occurrences, give or
\* take one, in the window of N weeks, and never N.
C8_AsClaimed ==
    (CheckedOne /\ OnlySchedule.freq_interval = 2) =>
      /\ Len(OnlyList) >= (WindowWeeks + 1) \div 2 - 1
      /\ Len(OnlyList) <= (WindowWeeks + 1) \div 2 + 1
      /\ Len(OnlyList) # WindowWeeks

\* C8, amended: a biweekly schedule whose first occurrence is not after the
\* window's start has ceil(N/2) occurrences, give or take one, in the
\* 365-day window (N = 52), and never N.
C8_BiweeklyFromWindowStart ==
    (CheckedOne /\ OnlySchedule.freq_interval = 2
                /\ next_occurrence(OnlySchedule) <= outcome.start) =>
      /\ Len(OnlyList) >= (WindowWeeks + 1) \div 2 - 1
      /\ Len(OnlyList) <= (WindowWeeks + 1) \div 2 + 1
      /\ Len(OnlyList) # WindowWeeks

\* C8 witness: a biweekly schedule, begun before the window, with one
\* occurrence more than ceil(N/2).
C8_BiweeklyOneMore ==
    /\ CheckedOne
    /\ OnlySchedule.freq_interval = 2
    /\ next_occurrence(OnlySchedule) < outcome.start
    /\ Len(OnlyList) = (WindowWeeks + 1) \div 2 + 1

---------------------------------------------------------------------------
(* The same-week test: two meetings of one slot each, around the week's end *)

\* Sunday and Monday slots at 00:00, 23:00 and 23:30 lasting 45 or 60
\* minutes: Sunday 2330 for 60 minutes ends on Monday at 00:30, Sunday 2300
\* for 60 minutes ends as Monday begins.
WeekFirst ==
    RecordsOf(Given({t0000, t2300, t2330}), Given({Sunday, Monday}), Given({"a"}),
              Given({"weekly"}), Given({d20261102}), Given({<<"6","0">>}))

WeekSecond ==
    RecordsOf(Given({t0000, t2300, t2330}), Given({Sunday, Monday}), Given({"a", "b"}),
              Given({"weekly", "biweekly"}), Given({d20261102}),
              Given({<<"4","5">>, <<"6","0">>}))

InitWeek ==
    /\ meetings = <<>>
    /\ now = At(2026, 11, 2, 9, 0)
    /\ outcome = [op |-> "none"]

NextWeek ==
    \/ \E r \in WeekFirst : meetings = <<>> /\ Load(<<r>>)
    \/ \E r \in WeekSecond : Len(meetings) = 1 /\ Load(<<r>>)
    \/ Len(meetings) = 2 /\ Check
    \/ \E p, q \in Held : CallConflicts(p[1], p[2], q[1], q[2])

SpecWeek == InitWeek /\ [][NextWeek]_vars

\* C5: s.conflicts(t) is true exactly when s and t have the same channel,
\* their canonical single-week intervals satisfy s.start < t.end and t.start
\* < s.end, and their frequencies are not the pair biweekly-odd,
\* biweekly-even.
C5_ConflictsIffSameChannelOverlap ==
    outcome.op = "conflicts" =>
      LET s == meetings[outcome.self[1]].schedules[outcome.self[2]]
          t == meetings[outcome.other[1]].schedules[outcome.other[2]]
      IN  outcome.result <=>
            (/\ s.irc = t.irc
             /\ s.meeting_start < t.meeting_end /\ t.meeting_start < s.meeting_end
             /\ ~(s.freq # t.freq /\ {s.freq, t.freq} \subseteq
                                        {"biweekly-odd", "biweekly-even"}))

\* C5 witness: conflicts() has answered false for two slots of one channel of
\* which one ends in the canonical week at the instant the other starts.
C5_TouchingSlotsDoNotConflict ==
    /\ outcome.op = "conflicts"
    /\ ~outcome.result
    /\ LET s == meetings[outcome.self[1]].schedules[outcome.self[2]]
           t == meetings[outcome.other[1]].schedules[outcome.other[2]]
       IN  s.irc = t.irc /\ s.meeting_end = t.meeting_start

Reverse(list) == [i \in 1..Len(list) |-> list[Len(list) + 1 - i]]

\* C9: the pair test of the check gives the same answer for (a, b) as for
\* (b, a), s.conflicts(t) = t.conflicts(s) for any two schedules, and a
\* channel's list scanned in the opposite order raises exactly when the list
\* itself does.
C9_OverlapIsSymmetric ==
    /\ \A x, y \in DOMAIN Supplied(meetings) :
          conflicts(Supplied(meetings)[x].schedule, Supplied(meetings)[y].schedule)
            = conflicts(Supplied(meetings)[y].schedule, Supplied(meetings)[x].schedule)
    /\ outcome.op = "check" =>
         \A c \in DOMAIN outcome.allinstances.list :
            LET l == outcome.allinstances.list[c]
            IN  /\ \A i, j \in DOMAIN l : Overlap(l[i], l[j]) = Overlap(l[j], l[i])
                /\ (ScanI(l, 1) = <<0, 0>>) = (ScanI(Reverse(l), 1) = <<0, 0>>)

\* C9 witness: a check found a conflict in a list in which the later of the
\* two instances starts first.
C9_ConflictWithLaterStartingFirst ==
    /\ outcome.op = "check"
    /\ outcome.raised
    /\ LET l == outcome.allinstances.list[outcome.allinstances.keys[outcome.channel]]
       IN  l[outcome.j].start < l[outcome.i].start

\* Both are weekly slots shorter than a week, from the same anchor date.
WeeklyPair(s, t) ==
    /\ s.freq_interval = 1 /\ t.freq_interval = 1
    /\ s.start_date \div Day = t.start_date \div Day
    /\ s.duration < ONE_WEEK /\ t.duration < ONE_WEEK

\* C10: for two weekly schedules of the same anchor date, shorter than a
\* week, s.conflicts(t) is true exactly when the check of the two meetings
\* that own them raises, also when a slot starts on Sunday and ends on Monday.
C10_SameWeekAgreesWithCheck ==
    (/\ outcome.op = "check"
     /\ Len(meetings) = 2
     /\ Len(Supplied(meetings)) = 2
     /\ WeeklyPair(Supplied(meetings)[1].schedule, Supplied(meetings)[2].schedule))
    => (conflicts(Supplied(meetings)[1].schedule, Supplied(meetings)[2].schedule)
          <=> outcome.raised)

---------------------------------------------------------------------------
(* Construction: one record, valid or not, is made into a Schedule         *)

t2500 == <<"2","5","0","0">>
d20261301 == <<"2","0","2","6","1","3","0","1">>
Funday == <<"F","u","n","d","a","y">>

\* Every weekday from every date of a week, and from the clock when no
\* start_date is given; the day spelled in other cases too.
DayRecords ==
    RecordsOf(Given({t0000, t1015, t2330}),
              Given(DayKeys \cup {Lower(Sunday), <<"M","O","N","D","A","Y">>}),
              Given({"a"}), Given({"weekly"}), Given(WeekDates) \cup Absent, Absent)

\* Slots around the end of the week, lasting from no time to more than a day
BoundaryRecords ==
    RecordsOf(Given({t0000, t2300, t2330}), Given({Saturday, Sunday, Monday}),
              Given({"a"}), Given({"weekly"}), Given({d20261102}),
              Given({<<"3","0">>, <<"6","0">>, <<"9","0">>, <<"+","4","5">>,
                     <<"1","5","0","0">>, <<"0">>, <<"-","3","0">>}))

\* Every field absent, well-formed or ill-formed
FieldRecords ==
    RecordsOf(Given({t1000, t2500}) \cup Absent,
              Given({Monday, Lower(Friday), Funday}) \cup Absent,
              Given({"a"}) \cup Absent,
              Given({"weekly", "biweekly", "monthly"}) \cup Absent,
              Given({d20261102, d20261301}) \cup Absent,
              Given({<<"3","0">>, <<"a","b","c">>, <<"0">>, <<"-","3","0">>})
                \cup Absent)

ScheduleRecords == DayRecords \cup BoundaryRecords \cup FieldRecords

InitSchedule ==
    /\ meetings = <<>>
    /\ now \in {At(2026, 11, 2, 9, 0), At(2026, 11, 7, 22, 0)}
    /\ outcome = [op |-> "none"]

NextSchedule ==
    \/ \E r \in ScheduleRecords : meetings = <<>> /\ Load(<<r>>)
    \/ \E p \in Held : CallNextOccurrence(p[1], p[2])

SpecSchedule == InitSchedule /\ [][NextSchedule]_vars

\* The schedule next_occurrence() was called on, the date of its anchor and
\* the date of the instant returned, as day numbers
Asked == meetings[outcome.self[1]].schedules[outcome.self[2]]
AnchorDate == Asked.start_date \div Day
ReturnedDate == outcome.result \div Day


\* C2: next_occurrence() returns an instant on the schedule's weekday at the
\* schedule's time of day, on a date not before the anchor date and at most 7
\* days after it: the anchor date itself exactly when that date falls on the
\* schedule's weekday, otherwise the first later date that does.
C2_NextOccurrenceIsFirstOnDay ==
    outcome.op = "next_occurrence" =>
      /\ ReturnedDate % 7 = WEEKDAYS(Asked.day)
      /\ outcome.result % Day = Asked.time
      /\ ReturnedDate >= AnchorDate
      /\ ReturnedDate <= AnchorDate + 7
      /\ (ReturnedDate = AnchorDate) <=> (AnchorDate % 7 = WEEKDAYS(Asked.day))
      /\ \A d \in AnchorDate..(ReturnedDate - 1) : d % 7 # WEEKDAYS(Asked.day)

\* C2 witness: next_occurrence() has answered for a schedule whose weekday
\* comes earlier in the week than its anchor date, with a date of the
\* following week.
C2_DayAlreadyPassedThisWeek ==
    /\ outcome.op = "next_occurrence"
    /\ WEEKDAYS(Asked.day) < AnchorDate % 7
    /\ ReturnedDate > AnchorDate
    /\ ReturnedDate \div 7 = AnchorDate \div 7 + 1

\* The record a load was given
Loaded == outcome.data.schedule[1]

Has(r, key) == key \in DOMAIN r

\* The cases in which construction is to fail: a mandatory field absent, a
\* day that is no weekday name in any case, a frequency other than weekly and
\* biweekly, a start_date that is no date, a duration that is no positive
\* integer.
MustFail(r) ==
    \/ \E key \in {"time", "day", "irc", "frequency"} : ~Has(r, key)
    \/ Has(r, "day") /\ Lower(r["day"]) \notin {Lower(n) : n \in DayKeys}
    \/ Has(r, "frequency") /\ r["frequency"] \notin {"weekly", "biweekly"}
    \/ Has(r, "start_date") /\ ~ParseDate(r["start_date"]).ok
    \/ Has(r, "duration") /\ ~(ParseInt(r["duration"]).ok
                               /\ ParseInt(r["duration"]).v > 0)

\* C4 as stated, for records whose time is a time of day: construction fails
\* and produces no Schedule in each of the listed cases (a duration of 0 or
\* below among them), and otherwise succeeds, with a duration of 60 minutes
\* when none is given.
C4_FailsExactlyInTheListedCases ==
    (/\ outcome.op = "load"
     /\ Has(Loaded, "time") => ParseTime(Loaded["time"]).ok)
    => /\ MustFail(Loaded) => (~outcome.ok /\ meetings = <<>>)
       /\ ~MustFail(Loaded) =>
            /\ outcome.ok
            /\ Len(meetings) = 1
            /\ ~Has(Loaded, "duration") => meetings[1].schedules[1].duration = 60

\* The start of the slot in the week of 1900-01-01 before any shift, and the
\* week boundary after it: Monday 1900-01-08 at 00:00
Unshifted(s) == DATES(s.day) * Day + s.time
WeekBoundary == DayNumber(1900, 1, 8) * Day

\* C6 as stated: a constructed Schedule on Sunday whose start plus duration
\* is past the week boundary has meeting_start and meeting_end one week
\* back, whatever the duration; a Schedule on another day, or one that ends
\* before the boundary, is not shifted; meeting_end - meeting_start is the
\* duration. (A slot ending exactly at the boundary is left open.)
C6_ShiftedExactlyWhenCrossing ==
    meetings # <<>> =>
      \A k \in DOMAIN meetings[1].schedules :
        LET s == meetings[1].schedules[k]
        IN  /\ s.meeting_end - s.meeting_start = s.duration
            /\ (s.day = Sunday /\ Unshifted(s) + s.duration > WeekBoundary)
                 => s.meeting_start = Unshifted(s) - ONE_WEEK
            /\ (s.day # Sunday \/ Unshifted(s) + s.duration < WeekBoundary)
                 => s.meeting_start = Unshifted(s)

====
